---- MODULE Spec2Model ----
(***************************************************************************)
(* Model of traffic_app.py: a Streamlit script that builds a cached table  *)
(* of synthetic route samples and, on every widget interaction, re-runs    *)
(* from top to bottom to estimate commute time, fuel loss and fuel cost.   *)
(*                                                                         *)
(* Reals are modelled in exact fixed point:                                *)
(*   distance (widget)        half kilometres   (10.0 km = 20)             *)
(*   predicted_time           1e-3 minutes      (84.438 min = 84438)       *)
(*   fuel_loss                1e-6 litres                                  *)
(*   fuel_cost                1e-6 rupees                                  *)
(*   dist (generator)         1e-3 km                                      *)
(*   Distance_km, Time_min    1e-2 (two decimals, as stored by round(2))   *)
(* Binary floating-point representation error is not modelled; the places  *)
(* where the code truncates a float (int(...), astype(int)) were checked   *)
(* to truncate the same way as the exact value for every input they take.  *)
(***************************************************************************)
EXTENDS Integers, Sequences, FiniteSets

\* ------------------------------------------------------------------ bounds

\* Number of rows of the table (n in generate_traffic_data, scaled down).
NumRows == 2

\* ------------------------------------------------------- program constants

\* zones list of generate_traffic_data.
ZONES ==
  <<"Whitefield", "Marathahalli", "KR Puram", "Hebbal",
    "Koramangala", "Silk Board", "Bellandur", "HSR Layout">>

\* The same names in the order Python's sorted() gives them.
ZONES_SORTED ==
  <<"Bellandur", "HSR Layout", "Hebbal", "KR Puram",
    "Koramangala", "Marathahalli", "Silk Board", "Whitefield">>

SENTINEL == "Other / Unknown Route"

\* Value of a script variable the current run has not assigned.
NONE == 0 - 1

NO_ZONE == ""

\* Estimator coefficients, in 1e-3 minutes.
INTERCEPT == 9538
COEFF_DIST == 4180
COEFF_SIGNAL == 950
COEFF_POTHOLE == 1800

\* Litres wasted per hour of delay, in tenths (0.3), and price per litre.
FUEL_RATE == 3
FUEL_PRICE == 102

\* Quality -> potholes factor, in tenths (2.2).
POTHOLE_FACTOR == 22

\* Widget ranges and defaults; distance in half kilometres.
MIN_DISTANCE == 2
DEFAULT_DISTANCE == 20
SIGNALS_MIN == 0
SIGNALS_MAX == 50
SIGNALS_DEFAULT == 14
QUALITY_MIN == 1
QUALITY_MAX == 10
QUALITY_DEFAULT == 5

\* Neutral quality shown for the unknown-route sentinel.
FALLBACK_QUALITY == 5

\* Generator constants.
DIST_MEAN == 10660          \* 10.66 km, in 1e-3 km
DIST_LO == 3000
DIST_HI == 20000
SIGNALS_CLIP == 30
POTHOLES_CLIP == 20
TARGET_MEAN == 577700       \* 57.77 min, in 1e-4 min
TARGET_SD == 2345           \* 23.45 min, in 1e-2 min
TIME_FLOOR == 150000        \* 15 min, in 1e-4 min

\* ------------------------------------------------------------ input spaces

\* Zones the random choice is drawn from in the model (three of ZONES).
ZoneChoices == {ZONES[4], ZONES[3], ZONES[1]}

\* Values the random draws of one row take: dist in 1e-3 km, pois a count,
\* pot in 1e-2 potholes, z the standardised time in 1e-2.
RowDraws ==
  { [dist |-> 1500,  pois |-> 0,  pot |-> 0 - 200, z |-> 0 - 300],
    [dist |-> 10664, pois |-> 14, pot |-> 512,     z |-> 0],
    [dist |-> 26000, pois |-> 40, pot |-> 2600,    z |-> 250],
    [dist |-> 8000,  pois |-> 9,  pot |-> 250,     z |-> 100],
    [dist |-> 14000, pois |-> 17, pot |-> 1050,    z |-> 0 - 100] }

\* One row's draws together with its np.random.choice of zone.
SeededRows ==
  { [dist |-> d.dist, pois |-> d.pois, pot |-> d.pot, z |-> d.z, zone |-> zn] :
      d \in RowDraws, zn \in ZoneChoices }

DistanceInputs == {MIN_DISTANCE, MIN_DISTANCE + 1, DEFAULT_DISTANCE}
SignalInputs == {SIGNALS_MIN, SIGNALS_DEFAULT, SIGNALS_MAX}
QualityInputs == QUALITY_MIN..QUALITY_MAX

VARIABLES
  rng,                \* what the generator seeded with 42 draws, row by row
  cache,              \* st.cache_data store of generate_traffic_data
  generated,          \* executions of the body of generate_traffic_data
  df,                 \* module variable df of the last run
  distance,           \* number_input, half kilometres
  knows_route,        \* checkbox
  selected_zone,      \* selectbox (NO_ZONE when not rendered)
  signals,
  quality_rating,
  avg_quality,
  estimated_potholes,
  predicted_time,
  fuel_loss,
  fuel_cost,
  error               \* exception that ended the last run, or "none"

vars ==
  <<rng, cache, generated, df, distance, knows_route, selected_zone, signals,
    quality_rating, avg_quality, estimated_potholes, predicted_time,
    fuel_loss, fuel_cost, error>>

\* ------------------------------------------------------------------ helpers

Max(a, b) == IF a >= b THEN a ELSE b

\* np.clip / Series.clip
Clip(x, lo, hi) == IF x < lo THEN lo ELSE IF x > hi THEN hi ELSE x

\* np.round / round() of the non-negative rational x/den: nearest, ties to even.
RoundHalfEven(x, den) ==
  LET q == x \div den
      r == x % den
  IN  IF 2 * r < den THEN q
      ELSE IF 2 * r > den THEN q + 1
      ELSE IF q % 2 = 0 THEN q ELSE q + 1

RECURSIVE SumOf(_, _)
SumOf(s, col) ==
  IF s = <<>> THEN 0 ELSE s[1][col] + SumOf(Tail(s), col)

\* int(Series.mean()): NONE stands for int(nan), which raises ValueError.
IntMean(s, col) ==
  IF s = <<>> THEN NONE ELSE SumOf(s, col) \div Len(s)

\* ---------------------------------------------------------------- generator

GenDist(d) == Clip(d, DIST_LO, DIST_HI)

GenSignals_noclip(dist, pois) ==
  LET raw == pois * 10000 + (dist - DIST_MEAN) * 3
  IN  IF raw < 0 THEN 0 - RoundHalfEven(0 - raw, 10000)
      ELSE RoundHalfEven(raw, 10000)

\* signals, from a Poisson draw and the clipped distance (units of 1e-4).
GenSignals(dist, pois) ==
  RoundHalfEven(
    Clip(pois * 10000 + (dist - DIST_MEAN) * 3, 0, SIGNALS_CLIP * 10000),
    10000)

\* potholes, from a normal draw (1e-2) and the clipped distance.
GenPotholes(dist, pot) ==
  RoundHalfEven(
    Clip(pot * 100 + (dist - DIST_MEAN) * 2, 0, POTHOLES_CLIP * 10000),
    10000)

\* time_final of a row whose standardised time_raw is z (1e-2), rounded to
\* two decimals for the Time_min column.
GenTime(z) ==
  RoundHalfEven(Max(z * TARGET_SD + TARGET_MEAN, TIME_FLOOR), 100)

RoadQuality_rounded(p) == Clip(10 - RoundHalfEven(p * 9, 20), 1, 10)

RoadQuality_direct(p) == Clip(1 + (p * 9) \div 20, 1, 10)

\* Road_Quality column: 10 - (Potholes / 20 * 9).astype(int), clipped.
RoadQuality(p) == Clip(10 - (p * 9) \div 20, 1, 10)

BuildRow(dr) ==
  LET dist == GenDist(dr.dist)
      pot  == GenPotholes(dist, dr.pot)
  IN  [ Distance_km  |-> RoundHalfEven(dist, 10),
        Time_min     |-> GenTime(dr.z),
        Signals      |-> GenSignals(dist, dr.pois),
        Potholes     |-> pot,
        Zone         |-> dr.zone,
        Road_Quality |-> RoadQuality(pot) ]

\* Body of generate_traffic_data.
BuildTable(draws) == [i \in 1..Len(draws) |-> BuildRow(draws[i])]

GenerateTrafficData_nocache(c, draws) ==
  [df |-> BuildTable(draws), ran |-> TRUE]

\* generate_traffic_data under @st.cache_data: the body runs on a miss only.
GenerateTrafficData(c, draws) ==
  IF c # <<>>
    THEN [df |-> c[1], ran |-> FALSE]
    ELSE [df |-> BuildTable(draws), ran |-> TRUE]

\* ---------------------------------------------------------------- estimator

PotholesFromQuality_rounded(q) ==
  RoundHalfEven((10 - q) * POTHOLE_FACTOR, 10)

\* int((10 - quality_rating) * 2.2)
PotholesFromQuality(q) == ((10 - q) * POTHOLE_FACTOR) \div 10

PredictedTime_generatorCoeff(d, s, p) ==
  INTERCEPT + (4524 * d) \div 2 + COEFF_SIGNAL * s + COEFF_POTHOLE * p

PredictedTime_noSignals(d, s, p) ==
  INTERCEPT + (COEFF_DIST * d) \div 2 + COEFF_POTHOLE * p

\* predicted_time, in 1e-3 minutes, for d half kilometres.
PredictedTime(d, s, p) ==
  INTERCEPT + (COEFF_DIST * d) \div 2 + COEFF_SIGNAL * s + COEFF_POTHOLE * p

\* fuel_loss = (predicted_time / 60) * 0.3, in 1e-6 litres.
FuelLoss(t) == (t * FUEL_RATE * 100) \div 60

\* fuel_cost = fuel_loss * 102, in 1e-6 rupees.
FuelCost(l) == l * FUEL_PRICE

\* ------------------------------------------------------------- zone lookup

ZonesOf(table) == {table[i].Zone : i \in 1..Len(table)}

AvailableZones_all(table) == ZONES_SORTED \o <<SENTINEL>>

\* sorted(df['Zone'].unique().tolist()) with the sentinel appended.
AvailableZones(table) ==
  SelectSeq(ZONES_SORTED, LAMBDA zn : zn \in ZonesOf(table)) \o <<SENTINEL>>

\* df[df['Zone'] == selected_zone]
ZoneData(table, zn) == SelectSeq(table, LAMBDA r : r.Zone = zn)

\* The zone-lookup branch of the sidebar: what it leaves in signals,
\* quality_rating, avg_quality and estimated_potholes.
ZoneLookup(table, zn) ==
  IF zn = SENTINEL
    THEN [ error |-> "none",
           signals |-> IntMean(table, "Signals"),
           quality_rating |-> NONE,
           avg_quality |-> FALLBACK_QUALITY,
           estimated_potholes |-> IntMean(table, "Potholes") ]
    ELSE LET zone_data == ZoneData(table, zn)
         IN  IF zone_data = <<>>
               THEN [ error |-> "ValueError",
                      signals |-> NONE,
                      quality_rating |-> NONE,
                      avg_quality |-> NONE,
                      estimated_potholes |-> NONE ]
               ELSE LET q == IntMean(zone_data, "Road_Quality")
                    IN  [ error |-> "none",
                          signals |-> IntMean(zone_data, "Signals"),
                          quality_rating |-> q,
                          avg_quality |-> q,
                          estimated_potholes |-> PotholesFromQuality(q) ]

\* The manual-input branch of the sidebar.
ManualInput(s, q) ==
  [ error |-> "none",
    signals |-> s,
    quality_rating |-> q,
    avg_quality |-> NONE,
    estimated_potholes |-> PotholesFromQuality(q) ]

\* ------------------------------------------------------------------ actions

\* One run of the script from top to bottom with the widgets holding
\* d (distance), k (checkbox), s and q (sliders) and zn (selectbox).
RunScript(d, k, s, q, zn) ==
  LET g    == GenerateTrafficData(cache, rng)
      side == IF k THEN ManualInput(s, q) ELSE ZoneLookup(g.df, zn)
      ok   == side.error = "none"
      t    == IF ok
                THEN PredictedTime(d, side.signals, side.estimated_potholes)
                ELSE NONE
  IN  /\ cache' = IF g.ran THEN <<g.df>> ELSE cache
      /\ generated' = generated + (IF g.ran THEN 1 ELSE 0)
      /\ df' = g.df
      /\ distance' = d
      /\ knows_route' = k
      /\ selected_zone' = IF k THEN NO_ZONE ELSE zn
      /\ signals' = side.signals
      /\ quality_rating' = side.quality_rating
      /\ avg_quality' = side.avg_quality
      /\ estimated_potholes' = side.estimated_potholes
      /\ error' = side.error
      /\ predicted_time' = t
      /\ fuel_loss' = IF ok THEN FuelLoss(t) ELSE NONE
      /\ fuel_cost' = IF ok THEN FuelCost(FuelLoss(t)) ELSE NONE
      /\ UNCHANGED rng

Init ==
  /\ rng \in [1..NumRows -> SeededRows]
  /\ cache = <<>>
  /\ generated = 0
  /\ df = <<>>
  /\ distance = NONE
  /\ knows_route = TRUE
  /\ selected_zone = NO_ZONE
  /\ signals = NONE
  /\ quality_rating = NONE
  /\ avg_quality = NONE
  /\ estimated_potholes = NONE
  /\ predicted_time = NONE
  /\ fuel_loss = NONE
  /\ fuel_cost = NONE
  /\ error = "none"

\* First run of the script: every widget at its default.
PageLoad ==
  /\ cache = <<>>
  /\ RunScript(DEFAULT_DISTANCE, TRUE, SIGNALS_DEFAULT, QUALITY_DEFAULT, NO_ZONE)

SetDistance ==
  /\ cache # <<>>
  /\ \E d \in DistanceInputs \ {distance} :
       RunScript(d, knows_route, signals, quality_rating, selected_zone)

\* The checkbox: the widgets of the branch that becomes visible start at
\* their defaults (the selectbox at its first option).
ToggleKnowsRoute ==
  /\ cache # <<>>
  /\ IF knows_route
       THEN RunScript(distance, FALSE, NONE, NONE, AvailableZones(cache[1])[1])
       ELSE RunScript(distance, TRUE, SIGNALS_DEFAULT, QUALITY_DEFAULT, NO_ZONE)

SetSignals ==
  /\ cache # <<>>
  /\ knows_route
  /\ \E s \in SignalInputs \ {signals} :
       RunScript(distance, TRUE, s, quality_rating, NO_ZONE)

SetQuality ==
  /\ cache # <<>>
  /\ knows_route
  /\ \E q \in QualityInputs \ {quality_rating} :
       RunScript(distance, TRUE, signals, q, NO_ZONE)

SelectZone ==
  /\ cache # <<>>
  /\ ~knows_route
  /\ LET available_zones == AvailableZones(cache[1])
     IN  \E i \in 1..Len(available_zones) :
           /\ available_zones[i] # selected_zone
           /\ RunScript(distance, FALSE, NONE, NONE, available_zones[i])

Next ==
  \/ PageLoad
  \/ SetDistance
  \/ ToggleKnowsRoute
  \/ SetSignals
  \/ SetQuality
  \/ SelectZone

Spec == Init /\ [][Next]_vars

\* ------------------------------------------------------------------ claims

Loaded == cache # <<>>

Estimated == Loaded /\ error = "none"

\* The run's road-quality rating decides estimated_potholes.
QualityControls == Estimated /\ (knows_route \/ selected_zone # SENTINEL)

Rows == 1..Len(df)

\* C1: in every input mode the estimate is the linear formula evaluated
\* exactly: predicted_time = 9.538 + 4.18 distance + 0.95 signals
\* + 1.8 estimated_potholes, fuel_loss = predicted_time / 60 * 0.3 (that is
\* predicted_time / 200) and fuel_cost = 102 fuel_loss; at distance 10.0,
\* signals 14, quality 5 it gives 11 potholes and 84.438 minutes.
EstimateMatchesReference ==
  Estimated =>
    /\ distance >= MIN_DISTANCE
    /\ signals \in 0..50
    /\ estimated_potholes >= 0
    /\ 2 * predicted_time =
         19076 + 4180 * distance + 1900 * signals + 3600 * estimated_potholes
    /\ 200 * fuel_loss = 1000 * predicted_time
    /\ fuel_cost = 102 * fuel_loss
    /\ (knows_route /\ distance = 20 /\ signals = 14 /\ quality_rating = 5) =>
         /\ estimated_potholes = 11
         /\ predicted_time = 84438

\* C1 witness: the estimate of the zone-lookup of a named zone, away from
\* the default distance.
EstimateWitness ==
  /\ Estimated
  /\ ~knows_route
  /\ selected_zone # SENTINEL
  /\ distance # DEFAULT_DISTANCE
  /\ predicted_time > 0

\* C2 as stated: where quality controls, estimated_potholes is
\* (10 - quality_rating) * 2.2 rounded to the nearest integer, 7 for 7.
PotholesRoundedToNearest ==
  QualityControls =>
    /\ estimated_potholes = RoundHalfEven((10 - quality_rating) * 22, 10)
    /\ quality_rating = 7 => estimated_potholes = 7

\* C2 amended: where quality controls, estimated_potholes is
\* (10 - quality_rating) * 2.2 truncated to an integer: the integer k with
\* k <= (10 - quality_rating) * 2.2 < k + 1, which is 6 for rating 7.
PotholesTruncated ==
  QualityControls =>
    /\ quality_rating \in 1..10
    /\ 10 * estimated_potholes <= 22 * (10 - quality_rating)
    /\ 22 * (10 - quality_rating) < 10 * (estimated_potholes + 1)
    /\ quality_rating = 7 => estimated_potholes = 6

\* C2 witness: the manual slider at 7.
PotholesWitness ==
  /\ QualityControls
  /\ knows_route
  /\ quality_rating = 7
  /\ estimated_potholes = 6

\* C3 as stated: every row has Road_Quality = 10 - round(Potholes/20 * 9)
\* clamped to [1, 10], rounding to the nearest integer.
RoadQualityRounded ==
  Loaded =>
    \A i \in Rows :
      df[i].Road_Quality =
        Clip(10 - RoundHalfEven(df[i].Potholes * 9, 20), 1, 10)

\* C3 amended: Road_Quality = 10 - floor(Potholes/20 * 9) clamped to
\* [1, 10], in every row and for every pothole count 0..20; 0 gives 10 and
\* 20 gives 1.
RoadQualityTruncated ==
  Loaded =>
    /\ \A i \in Rows :
         LET k == 10 - df[i].Road_Quality
         IN  /\ df[i].Road_Quality \in 1..10
             /\ 20 * k <= 9 * df[i].Potholes
             /\ 9 * df[i].Potholes < 20 * (k + 1)
             /\ df[i].Potholes = 0 => df[i].Road_Quality = 10
             /\ df[i].Potholes = 20 => df[i].Road_Quality = 1
    /\ \A p \in 0..POTHOLES_CLIP :
         LET k == 10 - RoadQuality(p)
         IN  /\ RoadQuality(p) \in 1..10
             /\ 20 * k <= 9 * p
             /\ 9 * p < 20 * (k + 1)

\* C3 witness: a row where truncating and rounding differ (2 potholes).
RoadQualityWitness ==
  /\ Loaded
  /\ \E i \in Rows : df[i].Potholes = 2 /\ df[i].Road_Quality = 10
  /\ \E i \in Rows : df[i].Potholes = 20 /\ df[i].Road_Quality = 1

\* C4: in zone-lookup mode the signal count and the road-quality value are
\* the integer averages over the whole table for the sentinel, and over the
\* rows of the selected zone for a named zone.
ZoneAveragesBothColumns ==
  (Estimated /\ ~knows_route) =>
    LET scope == IF selected_zone = SENTINEL
                   THEN df
                   ELSE SelectSeq(df, LAMBDA r : r.Zone = selected_zone)
    IN  /\ signals = SumOf(scope, "Signals") \div Len(scope)
        /\ avg_quality = SumOf(scope, "Road_Quality") \div Len(scope)

\* C5: predicted_time (and with it fuel_loss and fuel_cost) is strictly
\* increasing in each of distance, signals and estimated_potholes with the
\* other two held fixed.
StrictlyIncreasing ==
  Estimated =>
    /\ \A d \in 0..(distance + 2) :
         LET t == PredictedTime(d, signals, estimated_potholes)
         IN  /\ d < distance =>
                  /\ t < predicted_time
                  /\ FuelLoss(t) < fuel_loss
                  /\ FuelCost(FuelLoss(t)) < fuel_cost
             /\ d > distance =>
                  /\ t > predicted_time
                  /\ FuelLoss(t) > fuel_loss
                  /\ FuelCost(FuelLoss(t)) > fuel_cost
    /\ \A s \in 0..SIGNALS_MAX :
         LET t == PredictedTime(distance, s, estimated_potholes)
         IN  /\ s < signals =>
                  /\ t < predicted_time
                  /\ FuelLoss(t) < fuel_loss
                  /\ FuelCost(FuelLoss(t)) < fuel_cost
             /\ s > signals =>
                  /\ t > predicted_time
                  /\ FuelLoss(t) > fuel_loss
                  /\ FuelCost(FuelLoss(t)) > fuel_cost
    /\ \A p \in 0..POTHOLES_CLIP :
         LET t == PredictedTime(distance, signals, p)
         IN  /\ p < estimated_potholes =>
                  /\ t < predicted_time
                  /\ FuelLoss(t) < fuel_loss
                  /\ FuelCost(FuelLoss(t)) < fuel_cost
             /\ p > estimated_potholes =>
                  /\ t > predicted_time
                  /\ FuelLoss(t) > fuel_loss
                  /\ FuelCost(FuelLoss(t)) > fuel_cost

\* C5 witness: an estimate whose three inputs all have smaller and larger
\* neighbours.
IncreasingWitness ==
  /\ Estimated
  /\ distance > MIN_DISTANCE
  /\ signals \in 1..(SIGNALS_MAX - 1)
  /\ estimated_potholes \in 1..(POTHOLES_CLIP - 1)

RowsWithinRanges ==
  Loaded =>
    \A i \in Rows :
      /\ df[i].Distance_km \in 300..2000
      /\ df[i].Time_min >= 1500
      /\ df[i].Signals \in 0..30
      /\ df[i].Potholes \in 0..20
      /\ df[i].Road_Quality \in 1..10

\* C7 witness: a table with a row drawn below every lower limit and a row
\* drawn above every upper limit.
RangesWitness ==
  /\ Loaded
  /\ \E i \in Rows :
       /\ rng[i].dist < DIST_LO
       /\ rng[i].pot < 0
       /\ rng[i].z * TARGET_SD + TARGET_MEAN < TIME_FLOOR
       /\ df[i].Distance_km = 300
  /\ \E i \in Rows :
       /\ rng[i].dist > DIST_HI
       /\ rng[i].pois > SIGNALS_CLIP
       /\ rng[i].pot > POTHOLES_CLIP * 100
       /\ df[i].Signals = 30

\* C8: once generated the table never changes: the body of the generator
\* runs at most once and every later run of the script reads the same rows.
TableNeverChanges ==
  [][ /\ generated' <= 1
      /\ Loaded => (cache' = cache /\ df' = cache[1] /\ df' = df) ]_vars

\* C8 witness: the table after interactions with the distance, the checkbox
\* and the zone selectbox.
TableWitness ==
  /\ Loaded
  /\ generated = 1
  /\ distance # DEFAULT_DISTANCE
  /\ ~knows_route
  /\ selected_zone = SENTINEL
  /\ df = BuildTable(rng)

\* C9: Road_Quality is non-increasing in Potholes and a function of
\* Potholes alone, between any two rows and against every count 0..20.
QualityNonIncreasing ==
  Loaded =>
    /\ \A i, j \in Rows :
         df[i].Potholes <= df[j].Potholes =>
           df[i].Road_Quality >= df[j].Road_Quality
    /\ \A i \in Rows : \A p \in 0..POTHOLES_CLIP :
         /\ p <= df[i].Potholes => RoadQuality(p) >= df[i].Road_Quality
         /\ p >= df[i].Potholes => RoadQuality(p) <= df[i].Road_Quality

\* C9 witness: two rows of one zone, the one with more potholes having the
\* lower Road_Quality.
NonIncreasingWitness ==
  /\ Loaded
  /\ \E i, j \in Rows :
       /\ df[i].Potholes < df[j].Potholes
       /\ df[i].Road_Quality > df[j].Road_Quality
       /\ df[i].Zone = df[j].Zone

\* C10: in zone-lookup mode the selected zone is the sentinel or the zone of
\* some row, the options are exactly the zones of the table plus the
\* sentinel, and the named-zone branch never averages over no rows.
SelectedZoneHasRows ==
  (Loaded /\ ~knows_route) =>
    /\ selected_zone = SENTINEL \/ \E i \in Rows : df[i].Zone = selected_zone
    /\ {AvailableZones(df)[i] : i \in 1..Len(AvailableZones(df))} =
         ZonesOf(df) \cup {SENTINEL}
    /\ error = "none"

\* C10 witness: a named zone selected while another zone has no row.
SelectedZoneWitness ==
  /\ Loaded
  /\ ~knows_route
  /\ selected_zone \in ZoneChoices
  /\ \E zn \in ZoneChoices : zn \notin ZonesOf(df)

====
